---- MODULE Spec2Model ----
(***************************************************************************)
(* Model of the document reconstruction and chunking core of the backend:  *)
(*   backend/form_rec.py                    (tables, pages, page text)     *)
(*   backend/azure_document_intelligence.py (page splitting into chunks)   *)
(*   backend/utility.py                     (document key sanitizer)       *)
(*                                                                         *)
(* A Python str is a sequence of atoms.  An atom is one character, except  *)
(* for the few multi-character atoms named below ("===", "Page",           *)
(* ":selected:", ":unselected:", "intro", "text", "outro"), none of which  *)
(* shares a character boundary with another atom used next to it, so that  *)
(* substring search, replace and strip on atoms agree with the same        *)
(* operations on characters.  A Python dict is a record; a key that may be *)
(* absent is tested with DOMAIN.  A Python list is a sequence.             *)
(***************************************************************************)
EXTENDS Integers, Sequences, FiniteSets, TLC

\* ------------------------------------------------------------------ bounds

\* Longest cell list of a table handed to _extract_table.
MaxCells == 2
\* Largest declared rowCount / columnCount of a table.
MaxRows == 2
MaxCols == 3

\* ----------------------------------------------------------------- strings

EmptyStr == <<>>
NL == "\n"
SP == " "
SEL == ":selected:"
UNSEL == ":unselected:"

\* str.strip() with no argument removes leading and trailing whitespace.
IsSpace(ch) == ch \in {SP, NL}

MinOf(S) == CHOOSE m \in S : \A x \in S : m <= x
MaxOf(S) == CHOOSE m \in S : \A x \in S : x <= m

SubSeqOver(s, S) == IF S = {} THEN <<>> ELSE SubSeq(s, MinOf(S), MaxOf(S))
strip(s) == SubSeqOver(s, {n \in 1..Len(s) : ~IsSpace(s[n])})

\* s[i:] starts with pat
StartsAt(s, i, pat) ==
    /\ i + Len(pat) - 1 <= Len(s)
    /\ \A k \in 1..Len(pat) : s[i + k - 1] = pat[k]

\* pat in s  (Python substring test; the empty string is in every string)
Contains(s, pat) == \E i \in 1..(Len(s) + 1) : StartsAt(s, i, pat)

\* s.replace(old, new) for a non-empty old: leftmost, non-overlapping
RECURSIVE replace(_, _, _)
replace_at(s, old, new, found) ==
    IF found = {} THEN s
    ELSE SubSeq(s, 1, MinOf(found) - 1) \o new
           \o replace(SubSeq(s, MinOf(found) + Len(old), Len(s)), old, new)
replace(s, old, new) == replace_at(s, old, new, {n \in 1..Len(s) : StartsAt(s, n, old)})

\* sep.join(parts)
RECURSIVE join(_, _)
join(sep, parts) ==
    IF parts = <<>> THEN <<>>
    ELSE IF Len(parts) = 1 THEN parts[1]
    ELSE parts[1] \o sep \o join(sep, Tail(parts))

\* " " * n
Spaces(n) == [x \in 1..n |-> SP]

\* str(n) for n >= 0, and int(s) for a digit string
DigitChars == <<"0", "1", "2", "3", "4", "5", "6", "7", "8", "9">>
IsDigit(ch) == \E d \in 1..Len(DigitChars) : DigitChars[d] = ch
DigitValue(ch) == (CHOOSE d \in 1..Len(DigitChars) : DigitChars[d] = ch) - 1

RECURSIVE str(_)
str(n) ==
    IF n < Len(DigitChars) THEN <<DigitChars[n + 1]>>
    ELSE str(n \div Len(DigitChars)) \o <<DigitChars[(n % Len(DigitChars)) + 1]>>

RECURSIVE int(_)
int(s) ==
    IF s = <<>> THEN 0
    ELSE int(SubSeq(s, 1, Len(s) - 1)) * Len(DigitChars) + DigitValue(s[Len(s)])

\* ----------------------------------------------------------------- helpers

\* _first(mapping, k1, k2, default=d)
first(mapping, k1, k2, default) ==
    IF k1 \in DOMAIN mapping THEN mapping[k1]
    ELSE IF k2 \in DOMAIN mapping THEN mapping[k2]
    ELSE default

\* mapping.get(k, d)
get(mapping, k, default) == IF k \in DOMAIN mapping THEN mapping[k] ELSE default

\* _clean(text)
clean(text) ==
    strip(replace(replace(replace(replace(text,
        <<NL, UNSEL>>, <<>>), <<NL, SEL>>, <<>>), <<UNSEL>>, <<>>), <<SEL>>, <<>>))

\* CellInfo.from_raw(raw)
from_raw(raw) ==
    [row      |-> first(raw, "rowIndex", "row_index", 0),
     col      |-> first(raw, "columnIndex", "column_index", 0),
     row_span |-> first(raw, "rowSpan", "row_span", 1),
     col_span |-> first(raw, "columnSpan", "column_span", 1),
     content  |-> clean(get(raw, "content", EmptyStr))]

\* lst[i] = v on a Python list of length n: the 1-based position written, 0 when
\* Python raises IndexError.  A negative i in [-n, -1] counts from the end.
PyIndex(i, n) ==
    IF i >= 0 /\ i < n THEN i + 1
    ELSE IF i < 0 /\ i >= 0 - n THEN n + i + 1
    ELSE 0

\* ------------------------------------------------------------------ tables

\* [x for _ in range(n)]
RECURSIVE ListOf(_, _)
ListOf(x, n) == IF n <= 0 THEN <<>> ELSE Append(ListOf(x, n - 1), x)

\* the two comprehensions of line 70 nested the other way round
init_matrix_transposed(row_cnt, col_cnt) == ListOf(ListOf(EmptyStr, row_cnt), col_cnt)

\* [["" for _ in range(col_cnt)] for _ in range(row_cnt)]
init_matrix(row_cnt, col_cnt) == ListOf(ListOf(EmptyStr, col_cnt), row_cnt)

\* for r in range(row_span): for c in range(col_span):
\*     matrix[cell.row + r][cell.col + c] = cell.content
\* from the k-th write on (k counts the writes already made, row-major).  The
\* result is the matrix as the loop leaves it and whether IndexError was raised.
RECURSIVE write_cell(_, _, _)
write_at(matrix, cell, k, r, c) ==
    IF r = 0 \/ c = 0
    THEN [raised |-> TRUE, matrix |-> matrix]
    ELSE write_cell([matrix EXCEPT ![r][c] = cell.content], cell, k + 1)
write_in_row(matrix, cell, k, r) ==
    write_at(matrix, cell, k, r,
             IF r = 0 THEN 0
             ELSE PyIndex(cell.col + (k % cell.col_span), Len(matrix[r])))
write_cell(matrix, cell, k) ==
    IF cell.row_span <= 0 \/ cell.col_span <= 0 \/ k >= cell.row_span * cell.col_span
    THEN [raised |-> FALSE, matrix |-> matrix]
    ELSE write_in_row(matrix, cell, k,
                      PyIndex(cell.row + (k \div cell.col_span), Len(matrix)))

\* One iteration of the loop of _build_matrix: "for rc in raw_cells".
\* st is [raised, matrix, flat].
\* lines 73-74 without the test "if cell.content"
place_cell_unconditional(st, cell, w) ==
    [raised |-> w.raised, matrix |-> w.matrix, flat |-> Append(st.flat, cell.content)]
place_cell(st, cell, w) ==
    [raised |-> w.raised,
     matrix |-> w.matrix,
     flat   |-> IF cell.content # EmptyStr THEN Append(st.flat, cell.content)
                ELSE st.flat]
write_from_raw(st, cell) == place_cell(st, cell, write_cell(st.matrix, cell, 0))
build_cell(st, rc) == write_from_raw(st, from_raw(rc))

RECURSIVE build_cells(_, _)
build_cells(st, raw_cells) ==
    IF raw_cells = <<>> \/ st.raised THEN st
    ELSE build_cells(build_cell(st, Head(raw_cells)), Tail(raw_cells))

\* _build_matrix(row_cnt, col_cnt, raw_cells): [raised, matrix, flat]
build_matrix(row_cnt, col_cnt, raw_cells) ==
    build_cells([raised |-> FALSE, matrix |-> init_matrix(row_cnt, col_cnt),
                 flat |-> <<>>], raw_cells)

\* max(iterable, default=0) over a finite set of integers
Max0(S) == IF S = {} THEN 0 ELSE CHOOSE m \in S : \A x \in S : x <= m

\* header_rows of _extract_table
\* lines 88-91 taking every cell that carries a kind for a header cell
header_rows_in_any_kind(cells) ==
    IF \E n \in 1..Len(cells) : "kind" \in DOMAIN cells[n]
    THEN Max0({ first(cells[n], "rowIndex", "row_index", 0)
                  + first(cells[n], "rowSpan", "row_span", 1) :
                n \in { j \in 1..Len(cells) : "kind" \in DOMAIN cells[j] } })
    ELSE 0
header_rows_in(cells) ==
    IF \E n \in 1..Len(cells) : "kind" \in DOMAIN cells[n]
    THEN Max0({ first(cells[n], "rowIndex", "row_index", 0)
                  + first(cells[n], "rowSpan", "row_span", 1) :
                n \in { j \in 1..Len(cells) :
                          /\ "kind" \in DOMAIN cells[j]
                          /\ cells[j].kind = "columnHeader" } })
    ELSE 0
header_rows_of(tbl) == header_rows_in(get(tbl, "cells", <<>>))

\* [row for row in matrix if any(cell != "" for cell in row)]
IsBlankRow(row) == \A c \in 1..Len(row) : row[c] = EmptyStr
NotBlankRow(row) == ~IsBlankRow(row)
\* line 93 left out
filter_rows_skipped(matrix) == matrix
filter_rows(matrix) == SelectSeq(matrix, NotBlankRow)

\* Python slices lst[:h] and lst[h:]
SliceIndex(h, n) == IF h < 0 THEN (IF n + h < 0 THEN 0 ELSE n + h)
                    ELSE IF h > n THEN n ELSE h
SliceTo(lst, h) == SubSeq(lst, 1, SliceIndex(h, Len(lst)))
SliceFrom(lst, h) == SubSeq(lst, SliceIndex(h, Len(lst)) + 1, Len(lst))

\* list(dict.fromkeys(vals)): distinct values, first occurrences, in order
RECURSIVE fromkeys(_)
add_key(keys, val) ==
    IF \E n \in 1..Len(keys) : keys[n] = val THEN keys ELSE Append(keys, val)
fromkeys(vals) ==
    IF vals = <<>> THEN <<>>
    ELSE add_key(fromkeys(SubSeq(vals, 1, Len(vals) - 1)), vals[Len(vals)])

HeaderSep == <<SP, ":", SP>>

\* [" : ".join(dict.fromkeys(col_vals)) for col_vals in zip(*matrix[:header_rows])]
\* line 96 without dict.fromkeys: every value of the column is joined
zip_join_all(top) ==
    [c \in 1..(IF top = <<>> THEN 0 ELSE Len(top[1])) |->
        join(HeaderSep, [r \in 1..Len(top) |-> top[r][c]])]
zip_join(top) ==
    [c \in 1..(IF top = <<>> THEN 0 ELSE Len(top[1])) |->
        join(HeaderSep, fromkeys([r \in 1..Len(top) |-> top[r][c]]))]
header_names(matrix, header_rows) == zip_join(SliceTo(matrix, header_rows))

\* The DataFrame built at lines 95-99: the column labels as str() gives them
\* (header texts, or the positions 0..n-1 of pd.DataFrame(matrix)) and the rows.
make_frame(matrix, header_rows) ==
    IF header_rows # 0
    THEN [columns |-> header_names(matrix, header_rows),
          data    |-> SliceFrom(matrix, header_rows)]
    ELSE [columns |-> [c \in 1..(IF matrix = <<>> THEN 0 ELSE Len(matrix[1]))
                         |-> str(c - 1)],
          data    |-> matrix]

\* df.drop_duplicates(inplace=True): of equal rows the first is kept
\* line 101 left out
drop_duplicates_skipped(rows) == rows
drop_duplicates(rows) == fromkeys(rows)

\* _make_unique(columns), columns given as their str()
RECURSIVE make_unique(_)
make_unique(columns) ==
    IF columns = <<>> THEN <<>>
    ELSE Append(make_unique(SubSeq(columns, 1, Len(columns) - 1)),
                columns[Len(columns)]
                  \o Spaces(Cardinality({n \in 1..Len(columns) :
                                            columns[n] = columns[Len(columns)]})))

\* tabulate(df.to_records(index=False), headers=df.columns, tablefmt="github"):
\* a header line, a separator line and one line per row, joined by newlines;
\* cells are shown stripped; nothing at all for a frame without columns and rows.
\* (Column padding is left out.)
RECURSIVE md_line(_)
md_line(cells) ==
    IF cells = <<>> THEN <<"|">>
    ELSE md_line(SubSeq(cells, 1, Len(cells) - 1))
           \o <<SP>> \o strip(cells[Len(cells)]) \o <<SP, "|">>

to_markdown(frame) ==
    IF frame.columns = <<>> /\ frame.data = <<>> THEN EmptyStr
    ELSE join(<<NL>>,
              <<md_line(frame.columns),
                md_line([c \in 1..Len(frame.columns) |-> <<"-">>])>>
                \o [r \in 1..Len(frame.data) |-> md_line(frame.data[r])])

\* json.dumps({"fields": list(df.columns), "data": df.values.tolist()})
DQ == "\""
json_str(s) == <<DQ>> \o s \o <<DQ>>
json_list(parts) == <<"[">> \o join(<<",", SP>>, parts) \o <<"]">>
to_json(frame) ==
    <<"{">> \o json_str(<<"fields">>) \o <<":", SP>>
      \o json_list([c \in 1..Len(frame.columns) |-> json_str(frame.columns[c])])
      \o <<",", SP>> \o json_str(<<"data">>) \o <<":", SP>>
      \o json_list([r \in 1..Len(frame.data) |->
             json_list([c \in 1..Len(frame.data[r]) |-> json_str(frame.data[r][c])])])
      \o <<"}">>

\* Lines 95-102 of _extract_table: the frame with duplicate rows dropped and
\* the column names made unique.
finish_frame(frame) ==
    [columns |-> make_unique(frame.columns), data |-> drop_duplicates(frame.data)]
unique_frame(matrix, header_rows) == finish_frame(make_frame(matrix, header_rows))

\* Lines 104-112 of _extract_table: what is returned as the table's content, or
\* ValueError for an unknown as_.
\* a renderer that refuses a frame without rows
render_rejects_empty(frame, as) ==
    IF frame.data = <<>> \/ as \notin {"dataframe", "markdown", "json"}
    THEN [raised |-> TRUE, content |-> EmptyStr]
    ELSE [raised  |-> FALSE,
          content |-> IF as = "dataframe" THEN frame
                      ELSE IF as = "markdown" THEN to_markdown(frame)
                      ELSE to_json(frame)]
render(frame, as) ==
    IF as = "dataframe" THEN [raised |-> FALSE, content |-> frame]
    ELSE IF as = "markdown" THEN [raised |-> FALSE, content |-> to_markdown(frame)]
    ELSE IF as = "json" THEN [raised |-> FALSE, content |-> to_json(frame)]
    ELSE [raised |-> TRUE, content |-> EmptyStr]

\* _extract_table(tbl, as_=as): [raised, content, flat]
returned_table(out, flat) ==
    [raised |-> out.raised, content |-> out.content, flat |-> flat]
table_of_matrix(tbl, as, b) ==
    IF b.raised THEN [raised |-> TRUE, content |-> EmptyStr, flat |-> b.flat]
    ELSE returned_table(
             render(unique_frame(filter_rows(b.matrix), header_rows_of(tbl)), as),
             b.flat)
extract_table(tbl, as) ==
    table_of_matrix(tbl, as,
        build_matrix(first(tbl, "rowCount", "row_count", 0),
                     first(tbl, "columnCount", "column_count", 0),
                     get(tbl, "cells", <<>>)))

\* ------------------------------------------------------------------- pages

EmptyDict == <<>>

\* br = _first(item, "boundingRegions", "bounding_regions", default=[{}])
\* page_no = _first(br[0], "pageNumber", "page_number", default=1) if br else 1
\* line 122 reading the last bounding region: br[-1]
page_no_in_last(br) ==
    IF br # <<>> THEN first(br[Len(br)], "pageNumber", "page_number", 1) ELSE 1
page_no_in(br) ==
    IF br # <<>> THEN first(br[1], "pageNumber", "page_number", 1) ELSE 1
page_no_of(item) ==
    page_no_in(first(item, "boundingRegions", "bounding_regions", <<EmptyDict>>))

\* grouped.setdefault(key, []).append(val)  /  by_page[key].append(val)
group_append(grouped, key, val) ==
    IF key \in DOMAIN grouped THEN (key :> Append(grouped[key], val)) @@ grouped
    ELSE (key :> <<val>>) @@ grouped

\* _paragraphs_by_page(paragraphs)
RECURSIVE paragraphs_by_page(_)
paragraph_block(p) ==
    [role |-> get(p, "role", "paragraph"), content |-> clean(get(p, "content", EmptyStr))]
paragraphs_by_page(paragraphs) ==
    IF paragraphs = <<>> THEN EmptyDict
    ELSE group_append(paragraphs_by_page(SubSeq(paragraphs, 1, Len(paragraphs) - 1)),
                      page_no_of(paragraphs[Len(paragraphs)]),
                      paragraph_block(paragraphs[Len(paragraphs)]))

\* _tables_by_page(tables, as_=as): [raised, grouped]; a table whose
\* _extract_table raises ends the grouping with that error
RECURSIVE tables_by_page(_, _)
group_table(before, t, x) ==
    IF before.raised THEN before
    ELSE IF x.raised THEN [raised |-> TRUE, grouped |-> before.grouped]
    ELSE [raised  |-> FALSE,
          grouped |-> group_append(before.grouped, page_no_of(t),
              [table_content |-> [role |-> "table", content |-> x.content],
               table_list    |-> x.flat])]
tables_by_page(tables, as) ==
    IF tables = <<>> THEN [raised |-> FALSE, grouped |-> EmptyDict]
    ELSE group_table(tables_by_page(SubSeq(tables, 1, Len(tables) - 1), as),
                     tables[Len(tables)],
                     extract_table(tables[Len(tables)], as))

\* _normalise(items)
RECURSIVE normalise(_)
normalise_item(it) ==
    IF "content" \in DOMAIN it /\ "role" \in DOMAIN it THEN <<it>>
    ELSE IF "table_content" \in DOMAIN it THEN <<it.table_content>>
    ELSE <<>>
normalise(items) ==
    IF items = <<>> THEN <<>>
    ELSE normalise_item(Head(items)) \o normalise(Tail(items))

\* the output modes in which a table is matched against the page's blocks
IsTextMode(output) == output \in {"markdown", "json"}

\* as_ handed to _tables_by_page (lines 169-171)
as_of(output) == IF IsTextMode(output) THEN "markdown" ELSE "dataframe"

\* idx = [i for i, txt in enumerate(para_texts) if any(tok in txt for tok in flat)]
match_idx(items, table_list) ==
    { n \in 1..Len(items) :
        \E t \in 1..Len(table_list) : Contains(items[n].content, table_list[t]) }

\* One iteration of "for tbl in tbls.get(p, [])" (lines 176-185): items after
\* the table entry has been merged in.
\* the assignment of line 181 narrowed to items[idx[0] : idx[0] + 1]
replace_first_match(items, idx, block) ==
    IF idx # {}
    THEN SubSeq(items, 1, MinOf(idx) - 1) \o <<block>>
           \o SubSeq(items, MinOf(idx) + 1, Len(items))
    ELSE Append(items, block)
\* line 183 putting the table block first: items.insert(0, tbl["table_content"])
replace_span_or_insert(items, idx, block) ==
    IF idx # {}
    THEN SubSeq(items, 1, MinOf(idx) - 1) \o <<block>>
           \o SubSeq(items, MaxOf(idx) + 1, Len(items))
    ELSE <<block>> \o items
replace_span(items, idx, block) ==
    IF idx # {}
    THEN SubSeq(items, 1, MinOf(idx) - 1) \o <<block>>
           \o SubSeq(items, MaxOf(idx) + 1, Len(items))
    ELSE Append(items, block)
merge_table(items, entry, output) ==
    IF IsTextMode(output)
    THEN replace_span(items, match_idx(items, entry.table_list), entry.table_content)
    ELSE Append(items, entry.table_content)

RECURSIVE merge_tables(_, _, _)
merge_tables(items, entries, output) ==
    IF entries = <<>> THEN items
    ELSE merge_tables(merge_table(items, Head(entries), output), Tail(entries), output)

\* Lines 187-195: the page's blocks normalised and flattened to text.  str.join
\* raises TypeError on a block whose content is a DataFrame, which is what every
\* table block holds when the tables were extracted with as_="dataframe".
TableTag == <<"##TABLE##", NL>>
ParagraphTag == <<"##PARAGRAPH##", NL>>

is_frame(block, output) == ~IsTextMode(output) /\ block.role = "table"
\* lines 188-191 with the table tag for every role
part_of_one_tag(block, output, include_tags) ==
    IF is_frame(block, output) THEN EmptyStr
    ELSE IF include_tags THEN TableTag \o block.content
    ELSE block.content
part_of(block, output, include_tags) ==
    IF is_frame(block, output) THEN EmptyStr
    ELSE IF include_tags
    THEN (IF block.role = "table" THEN TableTag ELSE ParagraphTag) \o block.content
    ELSE block.content
assemble_blocks(blocks, output, include_tags) ==
    [raised |-> \E n \in 1..Len(blocks) : is_frame(blocks[n], output),
     structured_content   |-> blocks,
     unstructured_content |->
         join(<<NL>>, [n \in 1..Len(blocks) |-> part_of(blocks[n], output, include_tags)])]
assemble_page(items, output, include_tags) ==
    assemble_blocks(normalise(items), output, include_tags)

\* pages_total = len(analyse.get("pages", [])) or 1
\* line 161 without "or 1"
or_nothing(n) == n
or_one(n) == IF n # 0 THEN n ELSE 1
pages_total_of(analyse) == or_one(Len(get(analyse, "pages", <<>>)))

\* extract_text_and_tables(analyse, output=..., include_tags=...):
\* [raised, page_content], raised naming the exception ("" when it returns)
\* d.get(key, [])
get_list(d, key) == IF key \in DOMAIN d THEN d[key] ELSE <<>>

\* lines 173-195 once the paragraphs and the tables are grouped by page
page_entry(a) ==
    [structured_content   |-> a.structured_content,
     unstructured_content |-> a.unstructured_content]
assembled_pages(pages, by_page, grouped, output, include_tags) ==
    [p \in pages |->
        assemble_page(merge_tables(get_list(by_page, p), get_list(grouped, p), output),
                      output, include_tags)]
returned_pages(assembled) ==
    IF \E p \in DOMAIN assembled : assembled[p].raised
    THEN [raised |-> "TypeError", page_content |-> EmptyDict]
    ELSE [raised |-> "", page_content |-> [p \in DOMAIN assembled |-> page_entry(assembled[p])]]
pages_of(pages_total, by_page, tb, output, include_tags) ==
    IF \E p_no \in DOMAIN by_page : p_no \notin 1..pages_total
    THEN [raised |-> "KeyError", page_content |-> EmptyDict]
    ELSE IF tb.raised
    THEN [raised |-> "IndexError", page_content |-> EmptyDict]
    ELSE returned_pages(
             assembled_pages(1..pages_total, by_page, tb.grouped, output, include_tags))
extract_text_and_tables(analyse, output, include_tags) ==
    pages_of(pages_total_of(analyse),
             paragraphs_by_page(get(analyse, "paragraphs", <<>>)),
             tables_by_page(get(analyse, "tables", <<>>), as_of(output)),
             output, include_tags)

\* ------------------------------------------------------------------ chunks

\* f"=== Page {idx} ==="
PagePrefix == <<"===", SP, "Page", SP>>
PageSuffix == <<SP, "===">>
page_marker(idx) == PagePrefix \o str(idx) \o PageSuffix

\* convert_to_txt(page_dict)
RECURSIVE emit_pages(_, _)
emit_pages(ordered_pages, idx) ==
    IF ordered_pages = <<>> THEN EmptyStr
    ELSE (IF strip(Head(ordered_pages)) = EmptyStr THEN EmptyStr
          ELSE page_marker(idx) \o <<NL>> \o Head(ordered_pages) \o <<NL, NL>>)
           \o emit_pages(Tail(ordered_pages), idx + 1)

NonEmptyStr(s) == s # EmptyStr

\* convert_to_txt numbering the pages before the blank ones are left out
convert_to_txt_numbered_first(page_dict) ==
    strip(emit_pages([p \in 1..Len(page_dict) |-> strip(page_dict[p].unstructured_content)],
                     1))
convert_to_txt(page_dict) ==
    strip(emit_pages(
        SelectSeq([p \in 1..Len(page_dict) |-> strip(page_dict[p].unstructured_content)],
                  NonEmptyStr), 1))

\* The length of the match of r'=== Page \d+ ===' at position at of s, 0 if none.
\* the length of the longest run of digits s starts with
RunBefore(s, stops) == IF stops = {} THEN Len(s) ELSE MinOf(stops) - 1
DigitRun(s) == RunBefore(s, {n \in 1..Len(s) : ~IsDigit(s[n])})

MarkerWith(s, at, d) ==
    IF d > 0 /\ StartsAt(s, at + Len(PagePrefix) + d, PageSuffix)
    THEN Len(PagePrefix) + d + Len(PageSuffix)
    ELSE 0
MarkerLen(s, at) ==
    IF ~StartsAt(s, at, PagePrefix) THEN 0
    ELSE MarkerWith(s, at, DigitRun(SubSeq(s, at + Len(PagePrefix), Len(s))))

\* re.split(r'(=== Page \d+ ===)', text): text, marker, text, ..., text
RECURSIVE re_split(_)
split_at(s, at, m) ==
    <<SubSeq(s, 1, at - 1), SubSeq(s, at, at + m - 1)>>
      \o re_split(SubSeq(s, at + m, Len(s)))
split_first(s, at) == split_at(s, at, MarkerLen(s, at))
split_found(s, found) == IF found = {} THEN <<s>> ELSE split_first(s, MinOf(found))
re_split(s) == split_found(s, {n \in 1..Len(s) : MarkerLen(s, n) > 0})

\* re.search(r'=== Page (\d+) ===', page_marker).group(1)
marker_label(marker) ==
    SubSeq(marker, Len(PagePrefix) + 1, Len(marker) - Len(PageSuffix))

\* count_tokens(text): the tokenizer is a library; a token is taken to be one
\* atom that is not whitespace
count_tokens(text) == Cardinality({n \in 1..Len(text) : ~IsSpace(text[n])})

\* the threshold of line 113
MinTokens == 20

\* line 113 with "<" in place of "<="
below_threshold_strict(page_text) == count_tokens(strip(page_text)) < MinTokens

\* the condition of line 113 under which a page is skipped
below_threshold(page_text) == count_tokens(strip(page_text)) <= MinTokens

\* re.sub(r'[^A-Za-z0-9_=-]', '_', key)  (lines 118 and utility.py 192)
KeyChars ==
    {"a", "b", "d", "f", "p", "q", "w", "A", "Z", "0", "1", "2", "3", "4", "5", "6", "7",
     "8", "9", "_", "=", "-"}

\* re.sub(r'[^A-Za-z0-9_=-]+', '_', key): a run of other characters gives one
\* underscore
RECURSIVE sanitize_runs(_)
sanitize_runs(key) ==
    IF key = <<>> THEN <<>>
    ELSE IF key[Len(key)] \in KeyChars
    THEN Append(sanitize_runs(SubSeq(key, 1, Len(key) - 1)), key[Len(key)])
    ELSE IF Len(key) > 1 /\ key[Len(key) - 1] \notin KeyChars
    THEN sanitize_runs(SubSeq(key, 1, Len(key) - 1))
    ELSE Append(sanitize_runs(SubSeq(key, 1, Len(key) - 1)), "_")
sanitize_char(ch) == IF ch \in KeyChars THEN ch ELSE "_"
sanitize(key) == [n \in 1..Len(key) |-> sanitize_char(key[n])]

\* Utility.sanitize_document_key(key)
sanitize_document_key(key) == [n \in 1..Len(key) |-> sanitize_char(key[n])]

\* The chunk built at lines 115-125 from a marker and the text after it.
\* lines 119-125 with the raw filename in the chunk_id and the raw page text
chunk_of_raw(filename, page_no, page_text) ==
    [content     |-> page_text,
     page_number |-> page_no,
     filename    |-> filename,
     chunk_id    |-> filename \o <<"_", "p">> \o page_no]
chunk_of(filename, page_no, page_text) ==
    [content     |-> strip(page_text),
     page_number |-> page_no,
     filename    |-> filename,
     chunk_id    |-> sanitize(filename) \o <<"_", "p">> \o page_no]
make_chunk(filename, marker, page_text) ==
    chunk_of(filename, marker_label(marker), page_text)

\* Lines 107-125: the loop "for i in range(1, len(pages), 2)" from piece n on.
RECURSIVE split_pages(_, _, _)
page_chunk(filename, marker, page_text) ==
    IF below_threshold(page_text) THEN <<>>
    ELSE <<make_chunk(filename, marker, page_text)>>
split_pages(filename, pages, n) ==
    IF n > Len(pages) THEN <<>>
    ELSE page_chunk(filename, pages[n],
                    IF n + 1 <= Len(pages) THEN pages[n + 1] ELSE EmptyStr)
           \o split_pages(filename, pages, n + 2)

chunks_of(filename, text) == split_pages(filename, re_split(text), 2)

\* The file system the chunker writes to: directories and files by path.
\* os.makedirs(path, exist_ok=True): [raised, fs]
\* os.makedirs(path) without exist_ok
makedirs_exist_not_ok(fs, path) ==
    IF path = EmptyStr \/ path \in fs.dirs \/ \E f \in fs.files : f.path = path
    THEN [raised |-> TRUE, fs |-> fs]
    ELSE [raised |-> FALSE, fs |-> [fs EXCEPT !.dirs = @ \cup {path}]]
makedirs(fs, path) ==
    IF path = EmptyStr \/ \E f \in fs.files : f.path = path
    THEN [raised |-> TRUE, fs |-> fs]
    ELSE [raised |-> FALSE, fs |-> [fs EXCEPT !.dirs = @ \cup {path}]]

\* with open(path, "w") as f: f.write(data)
write_file(fs, path, data) ==
    [fs EXCEPT !.files = {f \in @ : f.path # path} \cup {[path |-> path, data |-> data]}]

RECURSIVE save_chunks(_, _, _)
save_chunks(fs, folder_path, result) ==
    IF result = <<>> THEN fs
    ELSE save_chunks(
             write_file(fs, folder_path \o <<"/">> \o Head(result).chunk_id
                                \o <<".", "t", "x", "t">>, Head(result).content),
             folder_path, Tail(result))

\* filename.replace('.pdf', '_chunks')
folder_path_of(filename) ==
    replace(filename, <<".", "p", "d", "f">>, <<"_", "c", "h", "u", "n", "k", "s">>)

\* split_text_files_in_folder(filename, text): [raised, result, fs]
save_result(fs, made, folder_path, result) ==
    IF made.raised THEN [raised |-> TRUE, result |-> <<>>, fs |-> fs]
    ELSE [raised |-> FALSE, result |-> result,
          fs |-> save_chunks(made.fs, folder_path, result)]
save_in(fs, folder_path, result) ==
    save_result(fs, makedirs(fs, folder_path), folder_path, result)
split_text_files_in_folder(fs, filename, text) ==
    save_in(fs, folder_path_of(filename), chunks_of(filename, text))

\* ------------------------------------------------------------- table inputs

\* A raw cell as the analysis service gives it: rowSpan, columnSpan and kind are
\* present only when they differ from 1, 1 and "content".
Cell(r, c, text) == [rowIndex |-> r, columnIndex |-> c, content |-> text]
Span(r, c, rs, cs, text) ==
    [rowIndex |-> r, columnIndex |-> c, rowSpan |-> rs, columnSpan |-> cs,
     content |-> text]
Kind(cell, kind) == cell @@ [kind |-> kind]
Header(cell) == Kind(cell, "columnHeader")

CellPool ==
    { Header(Cell(0, 0, <<"A">>)),
      Header(Cell(0, 1, <<"A">>)),
      Header(Cell(0, 2, <<"A">>)),
      Header(Span(0, 0, 2, 2, <<"A", SP, ":">>)),
      Header(Cell(0, 0, EmptyStr)),
      Kind(Cell(1, 0, <<"B">>), "rowHeader"),
      Cell(1, 0, <<"B">>),
      Cell(1, 1, <<SP, "C", NL, SEL>>),
      Cell(1, 0, EmptyStr),
      Span(0, 0, 2, 1, <<"B">>),
      Span(1, 1, 2, 1, <<"C">>),
      Cell(MaxRows, 0, <<"B">>),
      Cell(0 - 1, 0, <<"C">>),
      Cell(0, 0 - MaxCols - 1, <<"C">>) }

RECURSIVE SeqsUpTo(_, _)
SeqsUpTo(S, n) ==
    IF n = 0 THEN {<<>>}
    ELSE LET shorter == SeqsUpTo(S, n - 1)
         IN  shorter \cup { Append(q, x) : q \in {t \in shorter : Len(t) = n - 1}, x \in S }

Tables ==
    { [rowCount |-> r, columnCount |-> c, cells |-> cs] :
        r \in 0..MaxRows, c \in 0..MaxCols, cs \in SeqsUpTo(CellPool, MaxCells) }

RenderModes == {"dataframe", "markdown", "json", "html"}

NoTable == [rowCount |-> 0, columnCount |-> 0, cells |-> <<>>]
NoFrame == [columns |-> <<>>, data |-> <<>>]

\* -------------------------------------------------------------- page inputs

\* Most blocks on a page before its tables are merged, most tables of a page.
MaxBlocks == 3
MaxPageTables == 2

Block(role, text) == [role |-> role, content |-> text]
Intro == <<"intro", SP, "text">>
ABC == <<"A", SP, "B", SP, "C">>
Outro == <<"outro", SP, "text">>

ParaBlocks ==
    { Block("paragraph", Intro), Block("paragraph", ABC), Block("paragraph", Outro),
      Block("title", <<"X">>) }

OnPage(item, p) == item @@ [boundingRegions |-> <<[pageNumber |-> p]>>]

TableBC ==
    [rowCount |-> 1, columnCount |-> 2,
     cells |-> <<Cell(0, 0, <<"B">>), Cell(0, 1, <<"C">>)>>]
TableX == [rowCount |-> 1, columnCount |-> 1, cells |-> <<Cell(0, 0, <<"X">>)>>]
TableBlank == [rowCount |-> 1, columnCount |-> 1, cells |-> <<Cell(0, 0, EmptyStr)>>]
TableBlankHeader ==
    [rowCount |-> 1, columnCount |-> 1, cells |-> <<Header(Cell(0, 0, EmptyStr))>>]

MergeTables == {TableBC, TableX, TableBlank}

Outputs == {"markdown", "json", "paragraph"}

\* ---------------------------------------------------------- document inputs

\* Most pages of an analysis result, most paragraphs of it.
MaxPages == 2
MaxParas == 2

\* n words, one token each
Words(n) == [x \in 1..(2 * n - 1) |-> IF x % 2 = 1 THEN "w" ELSE SP]

\* a paragraph text that holds a line reading "=== Page 1 ==="
Injected == page_marker(1) \o <<NL>> \o Words(MinTokens + 1)

ParaTexts == {Words(MinTokens), Words(MinTokens + 1), Injected}

Paragraph(p, text) == OnPage([content |-> text], p)

\* paragraphs come in reading order, so their page numbers never decrease
ParagraphLists ==
    { ps \in SeqsUpTo({Paragraph(p, t) : p \in 1..MaxPages, t \in ParaTexts}, MaxParas) :
        \A a, b \in 1..Len(ps) : a < b => page_no_of(ps[a]) <= page_no_of(ps[b]) }

TableLists ==
    {<<>>, <<OnPage(TableBC, 1)>>, <<TableBlank, OnPage(TableBlankHeader, 1)>>,
     <<OnPage(TableX, MaxPages)>>}

\* analysis results that carry no "pages" entry at all
PagelessAnalyses ==
    { [paragraphs |-> ps, tables |-> <<>>] :
        ps \in {<<>>, <<Paragraph(1, Words(MinTokens + 1))>>} }

\* boundingRegions as the service may give them: several regions, none at
\* all, an empty list, a first region without a page number
Regions(item, br) == item @@ [boundingRegions |-> br]
RegionParagraphLists ==
    { << Regions([content |-> Words(MinTokens + 1)],
                 <<[pageNumber |-> 2], [pageNumber |-> 1]>>),
         [content |-> Words(MinTokens)] >>,
      << Regions([content |-> Words(MinTokens + 1)], <<>>),
         Regions([content |-> Words(MinTokens)], <<EmptyDict, [pageNumber |-> 2]>>) >> }
RegionTableLists ==
    { <<>>,
      << Regions(TableX, <<[pageNumber |-> 2], [pageNumber |-> 1]>>),
         Regions(TableBC, <<>>) >> }
RegionAnalyses ==
    { [pages |-> <<[pageNumber |-> 1], [pageNumber |-> 2]>>,
       paragraphs |-> ps, tables |-> ts] :
        ps \in RegionParagraphLists, ts \in RegionTableLists }

Analyses ==
    { [pages |-> [n \in 1..np |-> [pageNumber |-> n]], paragraphs |-> ps, tables |-> ts] :
        np \in 0..MaxPages, ps \in ParagraphLists, ts \in TableLists }
      \cup PagelessAnalyses \cup RegionAnalyses

\* the blob name "a b/q-7_=.pdf"
Filenames == { <<"a", SP, "b", "/", "q", "-", "7", "_", "=", ".", "p", "d", "f">> }

NoAnalysis == [pages |-> <<>>, paragraphs |-> <<>>, tables |-> <<>>]
NoFiles == [dirs |-> {}, files |-> {}]
NoResult == [pc |-> "", chunks |-> <<>>]

\* --------------------------------------------------------------- key inputs

\* Longest name handed to the sanitizers.
MaxKeyLen == 3

\* characters of names: a letter, a digit, the three allowed signs, and a
\* blank, a slash and a dot
KeyAlphabet == {"a", "7", "_", "=", "-", SP, "/", "."}

Keys == SeqsUpTo(KeyAlphabet, MaxKeyLen)

\* -------------------------------------------------------------------- state

VARIABLES
    pc,           \* where the modelled call stands, or the exception it raised
    \* _extract_table
    tbl,          \* the raw table
    as_,          \* the as_ argument
    i,            \* _build_matrix: cells of tbl consumed so far
    matrix,       \* _build_matrix / _extract_table: the local matrix
    flat,         \* _build_matrix: the local flat list
    header_rows,  \* the local header_rows
    df,           \* the local DataFrame
    content,      \* the rendered table returned
    \* one page of extract_text_and_tables (lines 174-195)
    paras,        \* the page's paragraph blocks as line 166 put them
    items,        \* the local items
    tbls,         \* tbls.get(p, [])
    k,            \* entries of tbls merged so far
    output,       \* the output argument
    include_tags, \* the include_tags argument
    page,         \* page_content[p]
    \* _extract_using_document_intelligence (lines 167-170)
    analyse,      \* the analysis result
    filename,     \* blob_name
    page_content, \* the result of extract_text_and_tables
    text,         \* the result of convert_to_txt
    chunks,       \* the result of split_text_files_in_folder
    fs,           \* the directories and files written
    run,          \* 1 in the first run over the analysis result, 2 in the second
    prev,         \* how the first run ended
    \* the two sanitizers
    key,          \* the name to sanitize
    sanitized,    \* the local sanitized of split_text_files_in_folder (line 118)
    document_key  \* what Utility.sanitize_document_key returned

tableVars == <<tbl, as_, i, matrix, flat, header_rows, df, content>>
pageVars == <<paras, items, tbls, k, output, include_tags, page>>
docVars == <<analyse, filename, page_content, text, chunks, fs, run, prev>>
keyVars == <<key, sanitized, document_key>>
vars == <<pc, tableVars, pageVars, docVars, keyVars>>

NoPage == [structured_content |-> <<>>, unstructured_content |-> EmptyStr]

TableIdle ==
    /\ tbl = NoTable /\ as_ = "markdown" /\ i = 0 /\ matrix = <<>> /\ flat = <<>>
    /\ header_rows = 0 /\ df = NoFrame /\ content = EmptyStr

PageIdle ==
    /\ paras = <<>> /\ items = <<>> /\ tbls = <<>> /\ k = 0
    /\ output = "markdown" /\ include_tags = FALSE /\ page = NoPage

DocIdle ==
    /\ analyse = NoAnalysis /\ filename = EmptyStr /\ page_content = EmptyDict
    /\ text = EmptyStr /\ chunks = <<>> /\ fs = NoFiles /\ run = 1 /\ prev = NoResult

KeyIdle == key = EmptyStr /\ sanitized = EmptyStr /\ document_key = EmptyStr

\* ------------------------------------------- _extract_table, step by step

TableInit ==
    /\ pc = "extract_table"
    /\ tbl \in Tables
    /\ as_ \in RenderModes
    /\ i = 0
    /\ matrix = <<>>
    /\ flat = <<>>
    /\ header_rows = 0
    /\ df = NoFrame
    /\ content = EmptyStr
    /\ PageIdle
    /\ DocIdle
    /\ KeyIdle

\* lines 83-85 and 70-71: the call of _build_matrix and its first two lines
BuildMatrixStart ==
    /\ pc = "extract_table"
    /\ matrix' = init_matrix(first(tbl, "rowCount", "row_count", 0),
                             first(tbl, "columnCount", "column_count", 0))
    /\ flat' = <<>>
    /\ i' = 0
    /\ pc' = "build_matrix"
    /\ UNCHANGED <<keyVars, tbl, as_, header_rows, df, content, pageVars, docVars>>

\* lines 72-78: one iteration of "for rc in raw_cells"
BuildMatrixCell ==
    /\ pc = "build_matrix"
    /\ i < Len(get(tbl, "cells", <<>>))
    /\ LET st == build_cell([raised |-> FALSE, matrix |-> matrix, flat |-> flat],
                            get(tbl, "cells", <<>>)[i + 1])
       IN  /\ matrix' = st.matrix
           /\ flat' = st.flat
           /\ pc' = IF st.raised THEN "IndexError" ELSE "build_matrix"
    /\ i' = i + 1
    /\ UNCHANGED <<keyVars, tbl, as_, header_rows, df, content, pageVars, docVars>>

\* lines 79 and 87-93: _build_matrix returns; header_rows; blank rows dropped
ExtractTableHeader ==
    /\ pc = "build_matrix"
    /\ i = Len(get(tbl, "cells", <<>>))
    /\ header_rows' = header_rows_of(tbl)
    /\ matrix' = filter_rows(matrix)
    /\ pc' = "frame"
    /\ UNCHANGED <<keyVars, tbl, as_, i, flat, df, content, pageVars, docVars>>

\* lines 95-102: the DataFrame, drop_duplicates, _make_unique
ExtractTableFrame ==
    /\ pc = "frame"
    /\ df' = unique_frame(matrix, header_rows)
    /\ pc' = "render"
    /\ UNCHANGED <<keyVars, tbl, as_, i, matrix, flat, header_rows, content, pageVars, docVars>>

\* lines 104-112: the return value for as_
ExtractTableRender ==
    /\ pc = "render"
    /\ LET out == render(df, as_)
       IN  /\ content' = out.content
           /\ pc' = IF out.raised THEN "ValueError" ELSE "returned"
    /\ UNCHANGED <<keyVars, tbl, as_, i, matrix, flat, header_rows, df, pageVars, docVars>>

TableNext ==
    \/ BuildMatrixStart
    \/ BuildMatrixCell
    \/ ExtractTableHeader
    \/ ExtractTableFrame
    \/ ExtractTableRender

SpecTable == TableInit /\ [][TableNext]_vars


\* ------------------------------- one page of extract_text_and_tables

PageInit ==
    /\ pc = "merge"
    /\ output \in Outputs
    /\ include_tags \in BOOLEAN
    /\ paras \in SeqsUpTo(ParaBlocks, MaxBlocks)
    /\ items = paras
    /\ \E ts \in SeqsUpTo(MergeTables, MaxPageTables) :
           tbls = LET g == tables_by_page(ts, as_of(output)).grouped
                  IN  IF 1 \in DOMAIN g THEN g[1] ELSE <<>>
    /\ k = 0
    /\ page = NoPage
    /\ TableIdle
    /\ DocIdle
    /\ KeyIdle

\* lines 175-185: one iteration of "for tbl in tbls.get(p, [])"
MergeTable ==
    /\ pc = "merge"
    /\ k < Len(tbls)
    /\ items' = merge_table(items, tbls[k + 1], output)
    /\ k' = k + 1
    /\ UNCHANGED <<keyVars, pc, paras, tbls, output, include_tags, page, tableVars, docVars>>

\* lines 187-195: _normalise and the page text
AssemblePage ==
    /\ pc = "merge"
    /\ k = Len(tbls)
    /\ LET a == assemble_page(items, output, include_tags)
       IN  IF a.raised
           THEN /\ pc' = "TypeError"
                /\ page' = [page EXCEPT !.structured_content = a.structured_content]
           ELSE /\ pc' = "assembled"
                /\ page' = [structured_content   |-> a.structured_content,
                            unstructured_content |-> a.unstructured_content]
    /\ UNCHANGED <<keyVars, paras, items, tbls, k, output, include_tags, tableVars, docVars>>

PageNext == MergeTable \/ AssemblePage

SpecPage == PageInit /\ [][PageNext]_vars

\* ----------------------------- _extract_using_document_intelligence

Init ==
    /\ pc = "extract"
    /\ analyse \in Analyses
    /\ filename \in Filenames
    /\ page_content = EmptyDict
    /\ text = EmptyStr
    /\ chunks = <<>>
    /\ fs = NoFiles
    /\ run = 1
    /\ prev = NoResult
    /\ TableIdle
    /\ PageIdle
    /\ KeyIdle

\* line 167: content = extract_text_and_tables(pdf_reader.as_dict(), output="markdown")
ExtractTextAndTables ==
    /\ pc = "extract"
    /\ LET x == extract_text_and_tables(analyse, "markdown", FALSE)
       IN  /\ page_content' = x.page_content
           /\ pc' = IF x.raised # "" THEN x.raised ELSE "convert"
    /\ UNCHANGED <<keyVars, analyse, filename, text, chunks, fs, run, prev, tableVars, pageVars>>

\* line 168: text_content = convert_to_txt(content)
ConvertToTxt ==
    /\ pc = "convert"
    /\ text' = convert_to_txt(page_content)
    /\ pc' = "split"
    /\ UNCHANGED <<keyVars, analyse, filename, page_content, chunks, fs, run, prev,
                   tableVars, pageVars>>

\* lines 169-170: chunks = self.split_text_files_in_folder(blob_name, text_content)
SplitTextFilesInFolder ==
    /\ pc = "split"
    /\ LET x == split_text_files_in_folder(fs, filename, text)
       IN  /\ chunks' = x.result
           /\ fs' = x.fs
           /\ pc' = IF x.raised THEN "OSError" ELSE "returned"
    /\ UNCHANGED <<keyVars, analyse, filename, page_content, text, run, prev, tableVars, pageVars>>

Ended == pc \in {"returned", "KeyError", "IndexError", "TypeError", "OSError"}

\* the host runs the pipeline a second time on the same analysis result and
\* blob name; the files of the first run are still there
RunAgain ==
    /\ Ended
    /\ run = 1
    /\ run' = 2
    /\ prev' = [pc |-> pc, chunks |-> chunks]
    /\ pc' = "extract"
    /\ page_content' = EmptyDict
    /\ text' = EmptyStr
    /\ chunks' = <<>>
    /\ UNCHANGED <<keyVars, analyse, filename, fs, tableVars, pageVars>>

Next ==
    \/ ExtractTextAndTables
    \/ ConvertToTxt
    \/ SplitTextFilesInFolder
    \/ RunAgain

Spec == Init /\ [][Next]_vars

\* ------------------------------------------------------- the sanitizers

KeyInit ==
    /\ pc = "sanitize"
    /\ key \in Keys
    /\ sanitized = EmptyStr
    /\ document_key = EmptyStr
    /\ TableIdle
    /\ PageIdle
    /\ DocIdle

\* azure_document_intelligence.py line 118: sanitized = re.sub(..., '_', filename)
SanitizeFilename ==
    /\ pc = "sanitize"
    /\ sanitized' = sanitize(key)
    /\ pc' = "sanitize_document_key"
    /\ UNCHANGED <<key, document_key, tableVars, pageVars, docVars>>

\* utility.py lines 190-193 on the same name
SanitizeDocumentKey ==
    /\ pc = "sanitize_document_key"
    /\ document_key' = sanitize_document_key(key)
    /\ pc' = "sanitized"
    /\ UNCHANGED <<key, sanitized, tableVars, pageVars, docVars>>

\* both sanitizers applied to what they returned
SanitizeAgain ==
    /\ pc = "sanitized"
    /\ sanitized' = sanitize(sanitized)
    /\ document_key' = sanitize_document_key(document_key)
    /\ pc' = "resanitized"
    /\ UNCHANGED <<key, tableVars, pageVars, docVars>>

KeyNext == SanitizeFilename \/ SanitizeDocumentKey \/ SanitizeAgain

SpecKey == KeyInit /\ [][KeyNext]_vars

\* ------------------------------------------------------------ table claims

Cells == get(tbl, "cells", <<>>)
RowCount == first(tbl, "rowCount", "row_count", 0)
ColCount == first(tbl, "columnCount", "column_count", 0)

\* (r, c), 0-based, lies in the rectangle [row, row+row_span) x [col, col+col_span)
Covers(cell, r, c) ==
    /\ cell.row <= r /\ r < cell.row + cell.row_span
    /\ cell.col <= c /\ c < cell.col + cell.col_span

\* part of the cell's rectangle lies outside [0, rows) x [0, cols)
OutOfBounds(cell, rows, cols) ==
    \/ cell.row < 0 \/ cell.col < 0
    \/ cell.row + cell.row_span > rows
    \/ cell.col + cell.col_span > cols

\* the cells _build_matrix has consumed so far
Consumed == { from_raw(Cells[j]) : j \in 1..i }

RECURSIVE rstrip_spaces(_)
rstrip_spaces(s) ==
    IF s # <<>> /\ s[Len(s)] = SP THEN rstrip_spaces(SubSeq(s, 1, Len(s) - 1)) ELSE s

\* the column labels of the frame before _make_unique
PlainColumns == make_frame(matrix, header_rows).columns

\* C2: the column names _extract_table produces through _make_unique are
\* pairwise different, and each, with its trailing spaces stripped, is the
\* header text of its column before disambiguation.
C2_UniqueColumnNames ==
    pc \in {"render", "returned"} =>
        /\ \A a, b \in 1..Len(df.columns) : a # b => df.columns[a] # df.columns[b]
        /\ Len(df.columns) = Len(PlainColumns)
        /\ \A a \in 1..Len(df.columns) : rstrip_spaces(df.columns[a]) = PlainColumns[a]

\* C9: once a cell with part of its rectangle outside the declared bounds has
\* been consumed, _build_matrix has raised: the build does not go on and no
\* table is rendered.
C9_OutOfBoundsRaises ==
    (\E cell \in Consumed : OutOfBounds(cell, RowCount, ColCount))
        => pc = "IndexError"

\* ------------------------------------------------------------- page claims

\* the blocks of items holding a token of the flat list of the table merged next
MatchingBlocks ==
    { n \in 1..Len(items) :
        \E t \in 1..Len(tbls[k + 1].table_list) :
            Contains(items[n].content, tbls[k + 1].table_list[t]) }

\* C6: in markdown/json output, a merge step whose table has a flat-list token
\* in some block replaces the blocks from the first to the last matching index
\* by exactly one table block, and leaves the blocks before the first match and
\* after the last match unchanged and in the same order.
C6_SpanReplaced ==
    [][ (pc = "merge" /\ k' = k + 1 /\ IsTextMode(output) /\ MatchingBlocks # {}) =>
            /\ Len(items') = Len(items) - (MaxOf(MatchingBlocks) - MinOf(MatchingBlocks))
            /\ \A n \in 1..(MinOf(MatchingBlocks) - 1) : items'[n] = items[n]
            /\ items'[MinOf(MatchingBlocks)] = tbls[k + 1].table_content
            /\ \A n \in (MaxOf(MatchingBlocks) + 1)..Len(items) :
                   items'[n - (MaxOf(MatchingBlocks) - MinOf(MatchingBlocks))] = items[n]
      ]_vars

\* blocks "intro text", "A B C", "outro text" and a table of flat list B, C:
\* the table block stands where "A B C" stood
C6_Witness ==
    /\ IsTextMode(output)
    /\ paras = <<Block("paragraph", Intro), Block("paragraph", ABC),
                 Block("paragraph", Outro)>>
    /\ k = 1
    /\ tbls[1].table_list = <<<<"B">>, <<"C">>>>
    /\ items = <<Block("paragraph", Intro), tbls[1].table_content,
                 Block("paragraph", Outro)>>

\* --------------------------------------------------------- document claims

\* the stripped text after each delimiter of the delimited text, in order
Pieces == re_split(text)
TextsOf(pieces) == [n \in 1..((Len(pieces) - 1) \div 2) |-> strip(pieces[2 * n + 1])]
LabelsOf(pieces) ==
    [n \in 1..((Len(pieces) - 1) \div 2) |->
        SubSeq(pieces[2 * n], Len(PagePrefix) + 1, Len(pieces[2 * n]) - Len(PageSuffix))]
PageTexts == TextsOf(Pieces)

OverThreshold(page_text) == count_tokens(page_text) > MinTokens
Retained(texts) == { n \in 1..Len(texts) : OverThreshold(texts[n]) }

\* the n-th smallest member of S
RECURSIVE Nth(_, _)
Nth(S, n) == IF n = 1 THEN MinOf(S) ELSE Nth(S \ {MinOf(S)}, n - 1)

\* C3: the chunks returned for one document are in strictly increasing order
\* of their numeric page label.
C3_PageAscending ==
    pc = "returned" =>
        \A a, b \in 1..Len(chunks) :
            a < b => int(chunks[a].page_number) < int(chunks[b].page_number)

\* C4: a second run of the pipeline on the same analysis result and filename
\* ends as the first did, with the same chunk sequence.
C4_Idempotent ==
    (run = 2 /\ Ended) => (pc = prev.pc /\ chunks = prev.chunks)

\* a second run that returned chunks, over the files the first run wrote
C4_Witness ==
    /\ run = 2 /\ pc = "returned"
    /\ Len(chunks) >= 1
    /\ prev.pc = "returned"
    /\ \E f \in fs.files : f.data = chunks[1].content
    /\ folder_path_of(filename) \in fs.dirs

\* C5: a page is emitted as a chunk if and only if the token count of its
\* stripped text is strictly greater than 20: the contents of the chunks are
\* the stripped page texts of more than 20 tokens, in order.
C5_Threshold ==
    pc = "returned" =>
        [n \in 1..Len(chunks) |-> chunks[n].content] = SelectSeq(PageTexts, OverThreshold)

\* a page of exactly 20 tokens dropped and a page of 21 tokens retained
C5_Witness ==
    /\ pc = "returned"
    /\ Len(chunks) = 1
    /\ Len(PageTexts) = 2
    /\ count_tokens(PageTexts[1]) = 20
    /\ count_tokens(PageTexts[2]) = 21
    /\ count_tokens(chunks[1].content) = 21

\* C7: every chunk has chunk_id = sanitize(filename) + "_p" + page_number,
\* page_number the decimal label of its page's delimiter, filename the
\* original filename, and content the page text stripped.
FieldsAsStated(texts, labels, retained) ==
    /\ Len(chunks) = Cardinality(retained)
    /\ \A j \in 1..Len(chunks) :
           /\ chunks[j].page_number = labels[Nth(retained, j)]
           /\ chunks[j].page_number = str(int(chunks[j].page_number))
           /\ chunks[j].chunk_id
                  = sanitize(filename) \o <<"_", "p">> \o chunks[j].page_number
           /\ \A n \in 1..Len(filename) :
                  chunks[j].chunk_id[n]
                      = IF filename[n] \in KeyChars THEN filename[n] ELSE "_"
           /\ chunks[j].filename = filename
           /\ chunks[j].content = texts[Nth(retained, j)]
FieldsOfPieces(texts, labels) == FieldsAsStated(texts, labels, Retained(texts))
C7_ChunkFields ==
    pc = "returned" => FieldsOfPieces(TextsOf(re_split(text)), LabelsOf(re_split(text)))

\* a chunk of the second page of a file whose name sanitising changes, its
\* content shorter than the text after the delimiter
C7_Witness ==
    /\ pc = "returned"
    /\ Len(chunks) = 2
    /\ chunks[2].page_number = <<"2">>
    /\ sanitize(filename) # filename
    /\ chunks[2].filename = filename
    /\ Len(chunks[2].content) < Len(Pieces[5])

\* C8: the chunk_ids of the chunks returned by one call are pairwise distinct.
C8_DistinctChunkIds ==
    pc = "returned" =>
        \A a, b \in 1..Len(chunks) : a # b => chunks[a].chunk_id # chunks[b].chunk_id

\* the page number of the item's first bounding region, 1 when it has none
FirstRegionPage(item) ==
    IF /\ "boundingRegions" \in DOMAIN item
       /\ item.boundingRegions # <<>>
       /\ "pageNumber" \in DOMAIN item.boundingRegions[1]
    THEN item.boundingRegions[1].pageNumber
    ELSE 1

\* every paragraph lies on a page of the document
OnDeclaredPages ==
    \A n \in 1..Len(analyse.paragraphs) :
        FirstRegionPage(analyse.paragraphs[n])
            \in 1..MaxOf({1, Len(get(analyse, "pages", <<>>))})

C11_PurelyFunctional ==
    [][analyse' = analyse /\ fs' = fs]_vars

\* the stripped texts of the pages that have any, in page order
EmittedTexts ==
    SelectSeq([p \in 1..Len(page_content) |-> strip(page_content[p].unstructured_content)],
              NonEmptyStr)

\* "=== Page 1 ===", text 1, blank line, "=== Page 2 ===", text 2, ...
RECURSIVE Delimited(_)
Delimited(texts) ==
    IF texts = <<>> THEN EmptyStr
    ELSE Delimited(SubSeq(texts, 1, Len(texts) - 1))
           \o PagePrefix \o str(Len(texts)) \o PageSuffix \o <<NL>>
           \o texts[Len(texts)] \o <<NL, NL>>

\* C14: the delimited text has one delimiter per page whose stripped text is
\* not empty, in page order, each followed by that page's stripped text, and
\* the delimiters are numbered 1..k for the k emitted pages.
C14_EmittedOrdinals ==
    pc \in {"split", "returned"} => text = strip(Delimited(EmittedTexts))

\* a two-page document whose first page is blank: the second page is "Page 1"
C14_Witness ==
    /\ pc = "split"
    /\ Len(page_content) = 2
    /\ page_content[1].unstructured_content = EmptyStr
    /\ page_content[2].unstructured_content # EmptyStr
    /\ StartsAt(text, 1, PagePrefix \o <<"1">> \o PageSuffix)
    /\ ~Contains(text, PagePrefix \o <<"2">> \o PageSuffix)

\* the chunk of the n-th emitted page
RoundTripChunk(texts, n) ==
    [content     |-> texts[n],
     page_number |-> str(n),
     filename    |-> filename,
     chunk_id    |-> sanitize(filename) \o <<"_", "p">> \o str(n)]

RECURSIVE RoundTripChunks(_, _)
RoundTripChunks(texts, n) ==
    IF n = 0 THEN <<>>
    ELSE RoundTripChunks(texts, n - 1)
           \o (IF OverThreshold(texts[n]) THEN <<RoundTripChunk(texts, n)>> ELSE <<>>)

\* C15: one page = one chunk: the chunks returned are exactly one chunk for
\* each emitted page of more than 20 tokens, the chunk of the i-th emitted
\* page having page_number str(i) and that page's stripped text as content.
C15_OnePageOneChunk ==
    pc = "returned" => chunks = RoundTripChunks(EmittedTexts, Len(EmittedTexts))

\* C16: the page dictionary returned has exactly the keys 1..total_pages
\* (1 when the "pages" list is empty or absent), and a page without
\* paragraphs and tables is there with no block and no text.
C16_ContiguousPages ==
    pc \in {"convert", "split", "returned"} =>
        /\ DOMAIN page_content
               = 1..(IF "pages" \in DOMAIN analyse /\ Len(analyse.pages) > 0
                     THEN Len(analyse.pages) ELSE 1)
        /\ \A p \in DOMAIN page_content :
               ( /\ \A n \in 1..Len(analyse.paragraphs) :
                        FirstRegionPage(analyse.paragraphs[n]) # p
                 /\ \A n \in 1..Len(analyse.tables) :
                        FirstRegionPage(analyse.tables[n]) # p )
                   => page_content[p] = NoPage

\* two pages of which the second has no paragraph and no table
C16_Witness ==
    /\ pc = "convert"
    /\ "pages" \in DOMAIN analyse
    /\ Len(analyse.pages) = 2
    /\ DOMAIN page_content = {1, 2}
    /\ page_content[1].structured_content # <<>>
    /\ page_content[2] = NoPage

\* ------------------------------------------------- page claims, continued

\* what _extract_table returns for a table of the page in the given rendering
RenderedAs(entry, as) ==
    \E t \in MergeTables :
        /\ extract_table(t, as).content = entry.table_content.content
        /\ extract_table(t, as).flat = entry.table_list

\* C12: the rendering of every table block is the one the caller's mode
\* selects: the grid-style text with output="markdown", the {fields, data}
\* JSON rendering of the same table with output="json".
C12_RenderingByMode ==
    IsTextMode(output) => \A j \in 1..Len(tbls) : RenderedAs(tbls[j], output)

\* C13: in every supported mode, "paragraph" included, and with tables on the
\* page, assembling the page raises nothing and the page text is a string.
C13_EveryModeCompletes ==
    output \in {"markdown", "json", "paragraph"} => pc # "TypeError"

\* ------------------------------------------------ table claims, continued

\* the consumed cells, by position in the cell list, whose rectangle holds (r, c)
Covering(r, c) == { j \in 1..i : Covers(from_raw(Cells[j]), r, c) }

LastWritten(covering) ==
    IF covering = {} THEN EmptyStr ELSE from_raw(Cells[MaxOf(covering)]).content

\* C17: every entry (r, c) of the grid _build_matrix holds is the cleaned
\* content of the last cell in input order whose rectangle contains (r, c),
\* and the empty string if no cell covers (r, c).
C17_LastWriteWins ==
    pc = "build_matrix" =>
        \A r \in 1..Len(matrix) : \A c \in 1..Len(matrix[r]) :
            matrix[r][c] = LastWritten(Covering(r - 1, c - 1))

\* C18: the flat list is the sequence of the cleaned contents of the consumed
\* cells whose cleaned content is not empty, in input order, one entry per
\* cell whatever its span; it never holds the empty string.
C18_FlatList ==
    pc \in {"build_matrix", "frame", "render", "returned"} =>
        /\ flat = SelectSeq([j \in 1..i |-> clean(get(Cells[j], "content", EmptyStr))],
                            NonEmptyStr)
        /\ \A n \in 1..Len(flat) : flat[n] # EmptyStr

\* two cells consumed, one spanning several entries, one without text: the
\* flat list has the one entry of the spanning cell
C18_Witness ==
    /\ pc = "build_matrix" /\ i = Len(Cells) /\ i = 2
    /\ \E j \in 1..2 : from_raw(Cells[j]).row_span * from_raw(Cells[j]).col_span > 1
                          /\ from_raw(Cells[j]).content # EmptyStr
    /\ \E j \in 1..2 : from_raw(Cells[j]).content = EmptyStr
    /\ Len(flat) = 1

\* the cells tagged as column header, by position in the cell list
HeaderCells ==
    { j \in 1..Len(Cells) : "kind" \in DOMAIN Cells[j] /\ Cells[j].kind = "columnHeader" }

\* C19: the header-row count is the maximum of row + row_span over the cells
\* tagged as column header, and 0 when no cell is tagged so.
C19_HeaderRowCount ==
    pc \in {"frame", "render", "returned", "ValueError"} =>
        header_rows = IF HeaderCells = {} THEN 0
                      ELSE MaxOf({ from_raw(Cells[j]).row + from_raw(Cells[j]).row_span :
                                   j \in HeaderCells })

\* a header cell over two rows next to a cell of another kind
C19_Witness ==
    /\ pc = "frame"
    /\ header_rows = 2
    /\ \E j \in 1..Len(Cells) : "kind" \in DOMAIN Cells[j] /\ Cells[j].kind # "columnHeader"
    /\ \E j \in HeaderCells : from_raw(Cells[j]).row_span = 2

\* the rows of a grid with an entry that is not the empty string
NonBlankRows(grid) ==
    { n \in 1..Len(grid) : \E c \in 1..Len(grid[n]) : grid[n][c] # EmptyStr }

\* C20: after the grid is built, exactly its rows with a non-empty entry are
\* kept, in their order, and the frame rendered from them has no row whose
\* entries are all empty.
C20_BlankRowsDropped ==
    [][ /\ (pc = "build_matrix" /\ pc' = "frame") =>
              /\ Len(matrix') = Cardinality(NonBlankRows(matrix))
              /\ \A j \in 1..Len(matrix') : matrix'[j] = matrix[Nth(NonBlankRows(matrix), j)]
        /\ pc' \in {"render", "returned"} =>
              /\ NonBlankRows(df'.data) = 1..Len(df'.data)
              /\ df'.columns = <<>> \/ \E c \in 1..Len(df'.columns) : df'.columns[c] # EmptyStr
      ]_vars

\* a grid of two rows whose first row was blank: one row is left
C20_Witness ==
    /\ pc = "frame"
    /\ RowCount = 2
    /\ Len(matrix) = 1
    /\ \A cell \in Consumed : cell.row = 1 /\ cell.content # EmptyStr
    /\ Consumed # {}

\* ------------------------------------------------ frame claims

\* the positions of a sequence at which a value occurs for the first time
FirstPositions(vals) ==
    { n \in 1..Len(vals) : \A m \in 1..(n - 1) : vals[m] # vals[n] }

\* the distinct values of a sequence in the order of their first occurrence
PickedAt(vals, keep) == [j \in 1..Cardinality(keep) |-> vals[Nth(keep, j)]]
Distinct(vals) == PickedAt(vals, FirstPositions(vals))

\* the number of retained rows that serve as header rows
HeaderDepth == IF header_rows > Len(matrix) THEN Len(matrix) ELSE header_rows

\* the retained rows below the header rows
RowsBelowHeader == [r \in 1..(Len(matrix) - HeaderDepth) |-> matrix[r + HeaderDepth]]

\* the header text of column c as stated: the distinct values of the column
\* over the header rows, joined by " : "
HeaderText(c) == join(HeaderSep, Distinct([r \in 1..HeaderDepth |-> matrix[r][c]]))

\* a column name is a text followed by spaces only
NamedAs(name, txt) == \E n \in 0..(MaxCols + 2) : name = txt \o Spaces(n)

\* C21: with a header-row count above 0 the name of each column is, up to the
\* trailing spaces of disambiguation, the " : "-join of the distinct values of
\* that column over the header rows in first-occurrence order, and the rows
\* below are the data rows; with a count of 0 the columns are named by their
\* position and every retained row is a data row.
C21_HeaderText ==
    pc \in {"render", "returned"} =>
        /\ Len(df.columns) = (IF matrix = <<>> THEN 0 ELSE Len(matrix[1]))
        /\ \A c \in 1..Len(df.columns) :
               NamedAs(df.columns[c], IF header_rows > 0 THEN HeaderText(c) ELSE str(c - 1))
        /\ { df.data[r] : r \in 1..Len(df.data) }
             = { RowsBelowHeader[r] : r \in 1..Len(RowsBelowHeader) }

\* two header rows that repeat a value in a column, the value named once
C21_Witness ==
    /\ pc = "render"
    /\ header_rows = 2 /\ Len(matrix) = 2
    /\ matrix[1] # <<>>
    /\ matrix[1][1] # EmptyStr /\ matrix[2][1] = matrix[1][1]
    /\ df.columns[1] = matrix[1][1] \o <<SP>>

\* C22: the data rows of the frame are the rows below the header with every
\* repetition of an earlier row left out: pairwise distinct, first
\* occurrences, in their order.
C22_DistinctDataRows ==
    pc \in {"render", "returned"} =>
        /\ df.data = Distinct(RowsBelowHeader)
        /\ \A a, b \in 1..Len(df.data) : a # b => df.data[a] # df.data[b]

\* two equal rows below the header, one of them kept
C22_Witness ==
    /\ pc = "render"
    /\ Len(RowsBelowHeader) = 2
    /\ RowsBelowHeader[1] = RowsBelowHeader[2]
    /\ Len(df.data) = 1

\* how many of the first c column labels equal the c-th
OccurrenceNo(c) == Cardinality({ n \in 1..c : PlainColumns[n] = PlainColumns[c] })

\* C23: _make_unique returns the k-th occurrence of a column name with k-1
\* trailing spaces appended: the first occurrence, and a name that occurs
\* once, unchanged.
C23_FirstUnchanged ==
    pc \in {"render", "returned"} =>
        /\ Len(df.columns) = Len(PlainColumns)
        /\ \A c \in 1..Len(df.columns) :
               df.columns[c] = PlainColumns[c] \o Spaces(OccurrenceNo(c) - 1)

\* the grid _build_matrix returns for the table, before blank rows are dropped
BuiltGrid == build_matrix(RowCount, ColCount, Cells).matrix

\* C29: a non-empty row of the grid whose original row index is at or above
\* the header-row count is a data row of the frame, also when blank rows were
\* dropped before the header rows were taken.
C29_HeaderByOriginalIndex ==
    pc \in {"render", "returned"} =>
        \A n \in NonBlankRows(BuiltGrid) :
            n > header_rows => \E d \in 1..Len(df.data) : df.data[d] = BuiltGrid[n]

\* ------------------------------------------------ merge claims

\* C25: in markdown/json output, a merge step whose table has no flat-list
\* token in any block appends the table block as the last block and leaves
\* every block that was there unchanged and in place: one block more.
C25_AppendedWhenNoMatch ==
    [][ (pc = "merge" /\ k' = k + 1 /\ IsTextMode(output) /\ MatchingBlocks = {}) =>
            /\ Len(items') = Len(items) + 1
            /\ items'[Len(items')] = tbls[k + 1].table_content
            /\ \A n \in 1..Len(items) : items'[n] = items[n]
      ]_vars

\* a table with tokens, none of them in the two or more blocks of the page,
\* has been appended
C25_Witness ==
    /\ pc = "merge" /\ k = 1 /\ IsTextMode(output)
    /\ Len(paras) >= 2
    /\ tbls[1].table_list # <<>>
    /\ items = Append(paras, tbls[1].table_content)

\* the text of blocks n..Len(blocks), each on lines of its own
RECURSIVE LinesFrom(_, _, _)
TaggedContent(block, tags) ==
    IF ~tags THEN block.content
    ELSE IF block.role = "table" THEN <<"##TABLE##", NL>> \o block.content
    ELSE <<"##PARAGRAPH##", NL>> \o block.content
LinesFrom(blocks, n, tags) ==
    IF n > Len(blocks) THEN EmptyStr
    ELSE IF n = Len(blocks) THEN TaggedContent(blocks[n], tags)
    ELSE TaggedContent(blocks[n], tags) \o <<NL>> \o LinesFrom(blocks, n + 1, tags)

\* C26: the text of an assembled page is the contents of its blocks in block
\* order, joined by single newlines; with include_tags each content follows a
\* line "##TABLE##" for a table block and "##PARAGRAPH##" for any other role;
\* without include_tags the text holds no tag.
C26_PageText ==
    pc = "assembled" =>
        /\ page.unstructured_content = LinesFrom(page.structured_content, 1, include_tags)
        /\ ~include_tags =>
               /\ ~Contains(page.unstructured_content, <<"##TABLE##">>)
               /\ ~Contains(page.unstructured_content, <<"##PARAGRAPH##">>)

\* a tagged page with a table block, a paragraph and a title
C26_Witness ==
    /\ pc = "assembled" /\ include_tags
    /\ Len(page.structured_content) = 3
    /\ \E n \in 1..3 : page.structured_content[n].role = "table"
    /\ \E n \in 1..3 : page.structured_content[n].role = "title"
    /\ \E n \in 1..3 : page.structured_content[n].role = "paragraph"
    /\ Contains(page.unstructured_content, <<NL, "##PARAGRAPH##", NL, "X">>)

\* the blocks of the page that are table blocks
TableBlocks == { n \in 1..Len(items) : items[n].role = "table" }

\* C28: merging never matches, replaces or removes a table block placed
\* before: after k tables of the page have been merged the page holds k table
\* blocks.
C28_TablesKept ==
    pc = "merge" => Cardinality(TableBlocks) = k

\* ------------------------------------------------ sanitizer claims

ItemsOn(lst, p) == { n \in 1..Len(lst) : FirstRegionPage(lst[n]) = p }

\* the cleaned contents of the paragraphs of page p, in document order
ContentsAt(lst, at) == [j \in 1..Cardinality(at) |-> clean(lst[Nth(at, j)].content)]
ParagraphContentsOn(p) == ContentsAt(analyse.paragraphs, ItemsOn(analyse.paragraphs, p))

\* the blocks of a returned page that are not table blocks, by position
OtherBlocks(blocks) == { n \in 1..Len(blocks) : blocks[n].role # "table" }
BlockContentsAt(blocks, at) == [j \in 1..Cardinality(at) |-> blocks[Nth(at, j)].content]

\* C24: every paragraph and table is put on the page of its first bounding
\* region, and on page 1 when it has none (no key, an empty list, a first
\* region without a page number); later regions play no part, and the
\* paragraphs of a page are in document order.
C24_FirstRegionPage ==
    pc \in {"convert", "split", "returned"} =>
        \A p \in DOMAIN page_content :
            /\ BlockContentsAt(page_content[p].structured_content,
                               OtherBlocks(page_content[p].structured_content))
                 = ParagraphContentsOn(p)
            /\ Cardinality({ n \in 1..Len(page_content[p].structured_content) :
                               page_content[p].structured_content[n].role = "table" })
                 = Cardinality(ItemsOn(analyse.tables, p))

\* a paragraph with regions on pages 2 and 1 is on page 2 only, one without
\* regions on page 1, and so the two tables
C24_Witness ==
    /\ pc = "convert"
    /\ Len(analyse.paragraphs) = 2 /\ Len(analyse.tables) = 2
    /\ Len(analyse.paragraphs[1].boundingRegions) = 2
    /\ "boundingRegions" \notin DOMAIN analyse.paragraphs[2]
    /\ Len(analyse.tables[1].boundingRegions) = 2
    /\ Len(page_content[1].structured_content) = 2
    /\ page_content[1].structured_content[1].content = Words(MinTokens)
    /\ Len(page_content[2].structured_content) = 2
    /\ page_content[2].structured_content[1].content = Words(MinTokens + 1)

\* C30: page grouping loses no item: when extract_text_and_tables returns,
\* every paragraph and every table lies on a page of the returned dictionary;
\* an item on a page outside 1..total_pages makes the call raise, a table as
\* much as a paragraph.
C30_NothingLost ==
    pc \in {"convert", "split", "returned"} =>
        /\ \A n \in 1..Len(analyse.paragraphs) :
               FirstRegionPage(analyse.paragraphs[n]) \in DOMAIN page_content
        /\ \A n \in 1..Len(analyse.tables) :
               FirstRegionPage(analyse.tables[n]) \in DOMAIN page_content

====
